---- MODULE Spec2Model ----
(***************************************************************************)
(* Model of src/index.js: an express server with JWT bearer                *)
(* authentication (authMiddleware), register / login handlers and the      *)
(* favorites handlers, running against a PostgreSQL store.                 *)
(*                                                                         *)
(* Strings are modelled as follows.  A header value is a sequence of       *)
(* symbols; a symbol is one space, the word "Bearer", a piece of           *)
(* space-free text that is no JWT, or a whole JWT.  A JWT is the record of *)
(* its payload (uid, exp) and of the key its signature was made with.      *)
(***************************************************************************)
EXTENDS Integers, Sequences, FiniteSets, TLC

\* ---------------------------------------------------------------- bounds
MaxTime == 1        \* the clock runs over 0..MaxTime
MaxId == 2          \* registrations stop once the next user id exceeds this
MaxHeaderLen == 4   \* symbols in a header handed to the auth gate (SpecGate)

\* ------------------------------------------------------- values and types
Clients == {"c1", "c2"}          \* requests that can be in flight together
Undefined == "<undefined>"       \* a field absent from the JSON body
NoSecret == "<undefined>"        \* process.env.JWT_SECRET when it is not set
Keys == {"k1", "k2"}             \* "k1": the configured secret; "k2": any other key
NoExp == -1                      \* payload without an exp claim
NoHeader == << [kind |-> "none", uid |-> 0, exp |-> NoExp, key |-> ""] >>

Names == {Undefined, "n"}
Emails == {"", "a", "b"}
Passwords == {Undefined, "p", "q"}
Salts == {"s3"}                 \* the salts bcrypt draws for new hashes
PokeIds == {0, 25}               \* 0: absent from the body (falsy either way)
FavNames == {Undefined, "pikachu"}

Falsy(v) == v \in {Undefined, ""}

\* header symbols
SP == [kind |-> "sp", uid |-> 0, exp |-> NoExp, key |-> ""]
BEARER == [kind |-> "Bearer", uid |-> 0, exp |-> NoExp, key |-> ""]
TEXT == [kind |-> "text", uid |-> 0, exp |-> NoExp, key |-> ""]
NoToken == [kind |-> "notoken", uid |-> 0, exp |-> NoExp, key |-> ""]

\* ------------------------------------------------------------ jsonwebtoken
\* jwt.sign(payload, key): throws when the key has no value.
SignThrows(key) == key = NoSecret

Jwt(uid, exp, key) == [kind |-> "jwt", uid |-> uid, exp |-> exp, key |-> key]

\* as if signed with { expiresIn: 1 }
SignWithExpiry(uid, key, t) == Jwt(uid, t + 1, key)

\* jwt.sign({ userId: user.id }, process.env.JWT_SECRET): no expiresIn option.
Sign(uid, key, t) == Jwt(uid, NoExp, key)

\* jwt.verify(tokenStr, secret) at time t: "ok", or the name of the error thrown.
\* The string must be exactly one JWT; the signature is checked before exp.
Verify(tokenStr, key, t) ==
    IF Len(tokenStr) # 1 \/ tokenStr[1].kind # "jwt" THEN "JsonWebTokenError"
    ELSE IF key = NoSecret THEN "JsonWebTokenError"
    ELSE IF tokenStr[1].key # key THEN "JsonWebTokenError"
    ELSE IF tokenStr[1].exp # NoExp /\ t >= tokenStr[1].exp THEN "TokenExpiredError"
    ELSE "ok"

\* ---------------------------------------------------------------- bcryptjs
NoHash == [salt |-> "", digest |-> <<"", "">>]

\* bcrypt.hash(password, 10) with the salt the library drew.
Hash(pw, salt) == [salt |-> salt, digest |-> <<salt, pw>>]

\* bcrypt.compare(password, hash): rehash under the stored salt.
Compare(pw, h) == Hash(pw, h.salt).digest = h.digest

\* ------------------------------------------------------------- JS strings
RECURSIVE FirstSpace(_, _)
\* index of the first space of s at or after i, or Len(s) + 1
FirstSpace(s, i) ==
    IF i > Len(s) THEN Len(s) + 1
    ELSE IF s[i] = SP THEN i
    ELSE FirstSpace(s, i + 1)

RECURSIVE Split(_)
\* s.split(' ')
Split(s) ==
    LET i == FirstSpace(s, 1)
    IN  IF i > Len(s) THEN << s >>
        ELSE << SubSeq(s, 1, i - 1) >> \o Split(SubSeq(s, i + 1, Len(s)))

\* s.startsWith('Bearer ')
StartsWithBearer(s) == Len(s) >= 2 /\ s[1] = BEARER /\ s[2] = SP

\* ---------------------------------------------------------- authMiddleware
GateResult(status, kind, next, userId, verified, tokenStr) ==
    [status |-> status, kind |-> kind, next |-> next, userId |-> userId,
     verified |-> verified, tokenStr |-> tokenStr]

GateIdle == GateResult(0, "idle", FALSE, 0, FALSE, << >>)

\* const tokenStr = token.split(' ')[1];
TokenStr(header) == Split(header)[2]

\* The whole middleware on one request: the status it answers (0 when it
\* answers nothing and calls next), req.userId, and the string it verified.
AuthMiddleware(header, key, t) ==
    IF header = NoHeader \/ header = << >>
    THEN GateResult(403, "MissingToken", FALSE, 0, FALSE, << >>)
    ELSE IF ~StartsWithBearer(header)
    THEN GateResult(400, "MalformedScheme", FALSE, 0, FALSE, << >>)
    ELSE LET tokenStr == TokenStr(header)
         IN  IF tokenStr = << >>
             THEN GateResult(400, "EmptyToken", FALSE, 0, FALSE, tokenStr)
             ELSE LET v == Verify(tokenStr, key, t)
                  IN  IF v = "ok"
                      THEN GateResult(0, "Authorized", TRUE, tokenStr[1].uid, TRUE, tokenStr)
                      ELSE IF v = "TokenExpiredError"
                      THEN GateResult(401, "Expired", FALSE, 0, TRUE, tokenStr)
                      ELSE GateResult(401, "Invalid", FALSE, 0, TRUE, tokenStr)

\* ------------------------------------------------------------------ state
VARIABLES
    secret,      \* process.env.JWT_SECRET, loaded once by dotenv
    dbUrl,       \* TRUE when process.env.DB_URL names a store the pool reaches
    listening,   \* app.listen has been called
    now,         \* the clock jwt.verify reads
    users,       \* table users, in insertion order
    nextId,      \* the id the store assigns to the next user row
    favorites,   \* table favorites
    issued,      \* every token a 201 / 200 response has carried
    registered,  \* every {email, password, userId} a 201 response stands for
    req,         \* per client: the request in flight and its handler's position
    gHeader,     \* SpecGate: the header handed to authMiddleware
    gResult      \* SpecGate: what authMiddleware did with it

vars == << secret, dbUrl, listening, now, users, nextId, favorites, issued,
           registered, req, gHeader, gResult >>

\* The record of one request.  name, email, password, poke_id and header are
\* what the client sent; userId is req.userId; hashPassword and user are the
\* handler's locals; status, token, respUserId and rows are the response.
\* Three fields only observe: err names the exception behind a 500 (or the
\* gate's rejection), fresh tells whether the email was absent from the store
\* when a registration arrived, scope collects the user ids the request's
\* favorites queries were parameterised with.
NoUser == [id |-> 0, name |-> "", email |-> "", password |-> NoHash]

Blank ==
    [kind |-> "idle", pc |-> "idle",
     name |-> Undefined, email |-> Undefined, password |-> Undefined, poke_id |-> 0,
     header |-> NoHeader, userId |-> 0, fresh |-> FALSE,
     hashPassword |-> NoHash, user |-> NoUser,
     status |-> 0, err |-> "", token |-> NoToken, respUserId |-> 0,
     rows |-> {}, scope |-> {}]

\* a store that already holds two accounts and their favorites
SeededUsers ==
    << [id |-> 1, name |-> "n", email |-> "a", password |-> Hash("p", "s1")],
       [id |-> 2, name |-> "n", email |-> "b", password |-> Hash("q", "s2")] >>

SeededFavorites ==
    { [user_id |-> 1, name |-> "pikachu", poke_id |-> 25],
      [user_id |-> 2, name |-> "mew", poke_id |-> 25],
      [user_id |-> 2, name |-> "pikachu", poke_id |-> 7] }

\* tokens the server never issued: signed with another key, or signed with
\* the configured key elsewhere and carrying an exp claim
ForeignTokens == { Jwt(1, NoExp, "k2"), Jwt(2, 1, "k1") }

\* ------------------------------------------------------------------ store
\* the unique constraint on users.email
EmailUnique(email) == \A i \in 1..Len(users) : users[i].email # email

\* as if the WHERE clause were missing
SelectAllUsers(email) == users

\* SELECT * FROM users WHERE email = $1
SelectUsersByEmail(email) == SelectSeq(users, LAMBDA u : u.email = email)

\* as if the WHERE clause were missing
SelectAllFavorites(uid) == favorites

\* SELECT * FROM favorites WHERE user_id = $1
SelectFavoritesByUser(uid) == { f \in favorites : f.user_id = uid }

\* SELECT * FROM favorites WHERE user_id = $1 AND name = $2
SelectFavoritesByUserAndName(uid, name) ==
    { f \in favorites : f.user_id = uid /\ f.name = name }

\* ---------------------------------------------------------------- startup
Init ==
    /\ secret \in {NoSecret, "k1"}
    /\ dbUrl \in BOOLEAN
    /\ listening = FALSE
    /\ now = 0
    /\ \/ users = << >> /\ nextId = 1 /\ favorites = {}
       \/ users = SeededUsers /\ nextId = 3 /\ favorites = SeededFavorites
    /\ issued = {}
    /\ registered = {}
    /\ req = [c \in Clients |-> Blank]
    /\ gHeader = NoHeader
    /\ gResult = GateIdle

\* pool.connect() only logs its failure, and app.listen is reached whatever
\* the environment holds.
Listen ==
    /\ ~listening
    /\ listening' = TRUE
    /\ UNCHANGED << secret, dbUrl, now, users, nextId, favorites, issued,
                    registered, req, gHeader, gResult >>

Tick ==
    /\ now < MaxTime
    /\ now' = now + 1
    /\ UNCHANGED << secret, dbUrl, listening, users, nextId, favorites, issued,
                    registered, req, gHeader, gResult >>

\* the response has gone out; the client may send its next request
Recycle(c) ==
    /\ req[c].pc = "done"
    /\ req' = [req EXCEPT ![c] = Blank]
    /\ UNCHANGED << secret, dbUrl, listening, now, users, nextId, favorites,
                    issued, registered, gHeader, gResult >>

Respond(r, status, err) == [r EXCEPT !.pc = "done", !.status = status, !.err = err]

storeFrame == UNCHANGED << secret, dbUrl, listening, now, users, nextId, favorites,
                           issued, registered, gHeader, gResult >>

\* ------------------------------------------- POST /api/auth/register
\* as if the check read (!email || !password)
RegisterMissingNameUnchecked(name, email, password) == Falsy(email) \/ Falsy(password)

\* if (!name || !email || !password)
RegisterMissing(name, email, password) ==
    Falsy(name) \/ Falsy(email) \/ Falsy(password)

RegisterBegin(c) ==
    /\ listening
    /\ req[c].pc = "idle"
    /\ \E name \in Names, email \in Emails, password \in Passwords :
          LET r == [Blank EXCEPT !.kind = "register", !.name = name,
                                 !.email = email, !.password = password,
                                 !.fresh = EmailUnique(email)]
          IN  req' = [req EXCEPT ![c] =
                        IF RegisterMissing(name, email, password)
                        THEN Respond(r, 400, "")
                        ELSE [r EXCEPT !.pc = "hash"]]
    /\ storeFrame

\* const hashPassword = await bcrypt.hash(password, 10)
RegisterHash(c) ==
    /\ req[c].kind = "register"
    /\ req[c].pc = "hash"
    /\ \E salt \in Salts :
          req' = [req EXCEPT ![c].hashPassword = Hash(req[c].password, salt),
                             ![c].pc = "insert"]
    /\ storeFrame

\* await pool.query('INSERT INTO users ... RETURNING *'); a rejection is
\* caught and answered 500.
RegisterInsert(c) ==
    /\ req[c].kind = "register"
    /\ req[c].pc = "insert"
    /\ IF ~dbUrl
       THEN /\ req' = [req EXCEPT ![c] = Respond(req[c], 500, "StoreUnavailable")]
            /\ UNCHANGED << users, nextId >>
       ELSE IF ~EmailUnique(req[c].email)
       THEN /\ req' = [req EXCEPT ![c] = Respond(req[c], 500, "UniqueViolation")]
            /\ UNCHANGED << users, nextId >>
       ELSE /\ nextId <= MaxId
            /\ LET row == [id |-> nextId, name |-> req[c].name,
                           email |-> req[c].email,
                           password |-> req[c].hashPassword]
               IN  /\ users' = Append(users, row)
                   /\ req' = [req EXCEPT ![c].user = row, ![c].pc = "sign"]
            /\ nextId' = nextId + 1
    /\ UNCHANGED << secret, dbUrl, listening, now, favorites, issued, registered,
                    gHeader, gResult >>

\* const token = jwt.sign(...); return res.status(201).json({..., token, userId})
RegisterSign(c) ==
    /\ req[c].kind = "register"
    /\ req[c].pc = "sign"
    /\ IF SignThrows(secret)
       THEN /\ req' = [req EXCEPT ![c] = Respond(req[c], 500, "SecretMissing")]
            /\ UNCHANGED << issued, registered >>
       ELSE LET token == Sign(req[c].user.id, secret, now)
            IN  /\ req' = [req EXCEPT ![c] =
                              [Respond(req[c], 201, "") EXCEPT
                                  !.token = token, !.respUserId = req[c].user.id]]
                /\ issued' = issued \cup {token}
                /\ registered' = registered \cup
                      { [email |-> req[c].email, password |-> req[c].password,
                         userId |-> req[c].user.id] }
    /\ UNCHANGED << secret, dbUrl, listening, now, users, nextId, favorites,
                    gHeader, gResult >>

\* ---------------------------------------------- POST /api/auth/login
\* if (!email || !password)
LoginMissing(email, password) == Falsy(email) \/ Falsy(password)

LoginBegin(c) ==
    /\ listening
    /\ req[c].pc = "idle"
    /\ \E email \in Emails, password \in Passwords :
          LET r == [Blank EXCEPT !.kind = "login", !.email = email,
                                 !.password = password]
          IN  req' = [req EXCEPT ![c] =
                        IF LoginMissing(email, password)
                        THEN Respond(r, 400, "")
                        ELSE [r EXCEPT !.pc = "select"]]
    /\ storeFrame

\* const result = await pool.query('SELECT ...'); const user = result.rows[0];
\* if (!user) 404
LoginSelect(c) ==
    /\ req[c].kind = "login"
    /\ req[c].pc = "select"
    /\ IF ~dbUrl
       THEN req' = [req EXCEPT ![c] = Respond(req[c], 500, "StoreUnavailable")]
       ELSE LET rows == SelectUsersByEmail(req[c].email)
            IN  IF rows = << >>
                THEN req' = [req EXCEPT ![c] = Respond(req[c], 404, "")]
                ELSE req' = [req EXCEPT ![c].user = rows[1], ![c].pc = "compare"]
    /\ storeFrame

\* the id the login handler signs and returns: user.id
LoginUserId(r) == r.user.id

\* const isMatch = await bcrypt.compare(password, user.password); 400 on a
\* mismatch, else sign and answer 200.
LoginCompare(c) ==
    /\ req[c].kind = "login"
    /\ req[c].pc = "compare"
    /\ IF ~Compare(req[c].password, req[c].user.password)
       THEN /\ req' = [req EXCEPT ![c] = Respond(req[c], 400, "WrongPassword")]
            /\ UNCHANGED issued
       ELSE IF SignThrows(secret)
       THEN /\ req' = [req EXCEPT ![c] = Respond(req[c], 500, "SecretMissing")]
            /\ UNCHANGED issued
       ELSE LET token == Sign(LoginUserId(req[c]), secret, now)
            IN  /\ req' = [req EXCEPT ![c] =
                              [Respond(req[c], 200, "") EXCEPT
                                  !.token = token,
                                  !.respUserId = LoginUserId(req[c])]]
                /\ issued' = issued \cup {token}
    /\ UNCHANGED << secret, dbUrl, listening, now, users, nextId, favorites,
                    registered, gHeader, gResult >>

\* ------------------------------------------------- the protected routes
\* the Authorization headers clients send to the protected routes
ProtectedHeaders ==
    {NoHeader, << BEARER, SP, TEXT >>}
        \cup { << BEARER, SP, t >> : t \in issued \cup ForeignTokens }

\* the request as authMiddleware leaves it: answered, or passed to next()
\* with req.userId set
AfterGate(r, g) ==
    IF g.next THEN [r EXCEPT !.userId = g.userId, !.pc = "next"]
    ELSE Respond(r, g.status, g.kind)

\* POST /api/favorites: the gate, then if (!name || !poke_id) 400
FavAddBegin(c) ==
    /\ listening
    /\ req[c].pc = "idle"
    /\ \E header \in ProtectedHeaders, name \in FavNames, poke_id \in PokeIds :
          LET r == AfterGate([Blank EXCEPT !.kind = "favAdd", !.header = header,
                                           !.name = name, !.poke_id = poke_id],
                             AuthMiddleware(header, secret, now))
          IN  req' = [req EXCEPT ![c] =
                        IF r.pc = "done" THEN r
                        ELSE IF Falsy(name) \/ poke_id = 0 THEN Respond(r, 400, "")
                        ELSE [r EXCEPT !.pc = "favSelect"]]
    /\ storeFrame

\* SELECT * FROM favorites WHERE user_id = $1 AND name = $2; 400 when a row
\* comes back
FavAddSelect(c) ==
    /\ req[c].kind = "favAdd"
    /\ req[c].pc = "favSelect"
    /\ IF ~dbUrl
       THEN req' = [req EXCEPT ![c] = Respond(req[c], 500, "StoreUnavailable")]
       ELSE LET rows == SelectFavoritesByUserAndName(req[c].userId, req[c].name)
                r == [req[c] EXCEPT !.scope = @ \cup {req[c].userId}]
            IN  IF rows # {}
                THEN req' = [req EXCEPT ![c] = Respond(r, 400, "AlreadyFavorite")]
                ELSE req' = [req EXCEPT ![c] = [r EXCEPT !.pc = "favInsert"]]
    /\ storeFrame

\* INSERT INTO favorites (user_id, name, poke_id) VALUES ($1, $2): three
\* columns and two values; the store rejects the statement, answered 500.
FavAddInsert(c) ==
    /\ req[c].kind = "favAdd"
    /\ req[c].pc = "favInsert"
    /\ req' = [req EXCEPT ![c] =
                 IF ~dbUrl THEN Respond(req[c], 500, "StoreUnavailable")
                 ELSE Respond([req[c] EXCEPT !.scope = @ \cup {req[c].userId}],
                              500, "InsertRejected")]
    /\ storeFrame

\* GET /api/favorites: the gate
FavListBegin(c) ==
    /\ listening
    /\ req[c].pc = "idle"
    /\ \E header \in ProtectedHeaders :
          LET r == AfterGate([Blank EXCEPT !.kind = "favList", !.header = header],
                             AuthMiddleware(header, secret, now))
          IN  req' = [req EXCEPT ![c] =
                        IF r.pc = "done" THEN r ELSE [r EXCEPT !.pc = "favQuery"]]
    /\ storeFrame

\* SELECT * FROM favorites WHERE user_id = $1; 200 with the rows
FavListQuery(c) ==
    /\ req[c].kind = "favList"
    /\ req[c].pc = "favQuery"
    /\ req' = [req EXCEPT ![c] =
                 IF ~dbUrl THEN Respond(req[c], 500, "StoreUnavailable")
                 ELSE [Respond(req[c], 200, "") EXCEPT
                          !.rows = SelectFavoritesByUser(req[c].userId),
                          !.scope = @ \cup {req[c].userId},
                          !.respUserId = req[c].userId]]
    /\ storeFrame

\* DELETE /api/favorites/:id: the gate; then the argument list [id, userId]
\* reads the undeclared name id, the ReferenceError is caught before any
\* query is sent, and the handler answers 500.
FavDelete(c) ==
    /\ listening
    /\ req[c].pc = "idle"
    /\ \E header \in ProtectedHeaders, poke_id \in {7, 25} :
          LET r == AfterGate([Blank EXCEPT !.kind = "favDel", !.header = header,
                                           !.poke_id = poke_id],
                             AuthMiddleware(header, secret, now))
          IN  req' = [req EXCEPT ![c] =
                        IF r.pc = "done" THEN r
                        ELSE Respond(r, 500, "ReferenceError")]
    /\ storeFrame

\* ---------------------------------------------------------- specification
Next ==
    \/ Listen
    \/ Tick
    \/ \E c \in Clients :
          \/ RegisterBegin(c) \/ RegisterHash(c) \/ RegisterInsert(c) \/ RegisterSign(c)
          \/ LoginBegin(c) \/ LoginSelect(c) \/ LoginCompare(c)
          \/ FavAddBegin(c) \/ FavAddSelect(c) \/ FavAddInsert(c)
          \/ FavListBegin(c) \/ FavListQuery(c)
          \/ FavDelete(c)
          \/ Recycle(c)

Spec == Init /\ [][Next]_vars

\* ------------------------------------- authMiddleware as a pure function
GateTokens == { Jwt(u, e, k) : u \in {1, 2}, e \in {NoExp, 1}, k \in Keys }

GateSyms == {SP, BEARER, TEXT} \cup GateTokens

GateHeaders ==
    {NoHeader} \cup UNION { [1..n -> GateSyms] : n \in 0..MaxHeaderLen }

InitGate ==
    /\ secret \in {NoSecret, "k1"}
    /\ dbUrl = TRUE
    /\ listening = TRUE
    /\ now = 0
    /\ users = << >> /\ nextId = 1 /\ favorites = {}
    /\ issued = {}
    /\ registered = {}
    /\ req = [c \in Clients |-> Blank]
    /\ gHeader = NoHeader
    /\ gResult = GateIdle

\* one request reaches authMiddleware
GateRequest ==
    /\ gResult = GateIdle
    /\ \E header \in GateHeaders :
          /\ gHeader' = header
          /\ gResult' = AuthMiddleware(header, secret, now)
    /\ UNCHANGED << secret, dbUrl, listening, now, users, nextId, favorites,
                    issued, registered, req >>

GateDone ==
    /\ gResult # GateIdle
    /\ gHeader' = NoHeader
    /\ gResult' = GateIdle
    /\ UNCHANGED << secret, dbUrl, listening, now, users, nextId, favorites,
                    issued, registered, req >>

\* the clock moves between requests: the middleware is synchronous
GateTick == gResult = GateIdle /\ Tick

NextGate == GateRequest \/ GateDone \/ GateTick

SpecGate == InitGate /\ [][NextGate]_vars

\* ================================================================ claims
AuthorizedToken(r) == TokenStr(r.header)[1]

Protected(r) == r.kind \in {"favAdd", "favList", "favDel"}

PassedGate(r) == Protected(r) /\ r.userId # 0

\* C7: a missing JWT_SECRET or DB_URL is fatal at startup: the server never
\* reaches the state in which it answers requests, so no request is answered
\* with a status that comes out of the missing configuration.
C7_MissingConfigIsFatal ==
    (secret = NoSecret \/ ~dbUrl) =>
        \A c \in Clients :
            ~(req[c].pc = "done" /\ req[c].err \in {"SecretMissing", "StoreUnavailable"})

\* C10: DELETE /api/favorites/:id by an authorized user answers 200 with the
\* removed record when the user has a favorite with that poke_id, and 404
\* with the store unchanged when the user has none.
C10_DeleteAnswers ==
    \A c \in Clients :
        (req[c].kind = "favDel" /\ req[c].pc = "done" /\ PassedGate(req[c]) /\ dbUrl) =>
            \/ req[c].status = 200 /\ req[c].rows # {}
            \/ /\ req[c].status = 404
               /\ ~\E f \in favorites :
                      f.user_id = req[c].userId /\ f.poke_id = req[c].poke_id

\* ------------------------------------------------- the gate (SpecGate)
\* what is left of s after the 7 characters of 'Bearer '
Remainder(s) == SubSeq(s, 3, Len(s))

\* the status the precedence rules of C1 give a header (0: next is called);
\* an empty header value is counted with the absent header
C1_Expected(header) ==
    IF header = NoHeader \/ header = << >> THEN 403
    ELSE IF ~StartsWithBearer(header) THEN 400
    ELSE IF Remainder(header) = << >> THEN 400
    ELSE IF Verify(Remainder(header), secret, now) # "ok" THEN 401
    ELSE 0

\* C1: the gate answers by the first rule that applies (no header 403, no
\* "Bearer " prefix 400, empty remainder 400, token that fails verification
\* or is expired 401), and next is called exactly when no rule applies.
C1_GatePrecedence ==
    gResult # GateIdle =>
        /\ gResult.status = C1_Expected(gHeader)
        /\ gResult.next <=> C1_Expected(gHeader) = 0

\* C9: the gate rejects as EmptyToken exactly when the header starts with
\* "Bearer " and nothing follows the prefix; for any non-empty remainder the
\* string verified is the whole remainder.
C9_EmptyTokenExactly ==
    gResult # GateIdle =>
        /\ gResult.kind = "EmptyToken" <=>
              (StartsWithBearer(gHeader) /\ Remainder(gHeader) = << >>)
        /\ (StartsWithBearer(gHeader) /\ Remainder(gHeader) # << >>) =>
              (gResult.verified /\ gResult.tokenStr = Remainder(gHeader))

\* ------------------------------------------------ the handlers (Spec)
\* C2: a request the gate passes carries as req.userId exactly the user id
\* of the token in its header, and every favorites query it sends, and every
\* row it gets back, is scoped to that id.
C2_IdentifierBinding ==
    \A c \in Clients :
        PassedGate(req[c]) =>
            /\ req[c].userId = AuthorizedToken(req[c]).uid
            /\ req[c].scope \subseteq {AuthorizedToken(req[c]).uid}
            /\ \A f \in req[c].rows : f.user_id = AuthorizedToken(req[c]).uid

\* a favorites listing answered for one user while the other user owns rows
C2_Witness ==
    \E c \in Clients :
        /\ req[c].kind = "favList" /\ req[c].status = 200
        /\ AuthorizedToken(req[c]) \in issued
        /\ req[c].rows # {}
        /\ \E f \in favorites : f.user_id # req[c].userId

LoginAnswers(c) ==
    req[c].kind = "login" /\ req[c].pc # "done" /\ req'[c].pc = "done"

\* C3: a login that follows a 201 registration of the same email and
\* password answers 200, and the userId of its token, of its response and of
\* the register response are one identifier.
C3_RegisterThenLogin ==
    [][\A c \in Clients : \A g \in registered :
          (LoginAnswers(c) /\ g.email = req[c].email /\ g.password = req[c].password)
              => /\ req'[c].status = 200
                 /\ req'[c].respUserId = g.userId
                 /\ req'[c].token.kind = "jwt"
                 /\ req'[c].token.uid = g.userId]_vars

\* a login answered 200 for the second account registered in this run
C3_Witness ==
    \E c \in Clients : \E g \in registered :
        /\ req[c].kind = "login" /\ req[c].status = 200
        /\ g.email = req[c].email /\ g.password = req[c].password
        /\ g.userId = 2 /\ req[c].respUserId = 2
        /\ Cardinality(registered) = 2

RegisterRan(r) == r.kind = "register" /\ r.pc = "done" /\ r.hashPassword # NoHash

\* C4: of two concurrent registrations of one email, not in the store when
\* they began, against a store that answers, exactly one ends 201, the
\* other ends 500, and the store holds one User with that email.
C4_ConcurrentRegistrations ==
    (dbUrl /\ RegisterRan(req["c1"]) /\ RegisterRan(req["c2"])
           /\ req["c1"].email = req["c2"].email
           /\ req["c1"].fresh /\ req["c2"].fresh) =>
        /\ {req["c1"].status, req["c2"].status} = {201, 500}
        /\ Len(SelectUsersByEmail(req["c1"].email)) = 1

\* C5: a login with email and password present, against a store that
\* answers, ends 404 when the lookup found no User, 400 when the password
\* does not verify against the stored hash, 200 with a token for that User
\* when it verifies; a token is issued only then.
C5_LoginAnswers ==
    \A c \in Clients :
        (dbUrl /\ req[c].kind = "login" /\ req[c].pc = "done"
               /\ ~LoginMissing(req[c].email, req[c].password)) =>
            /\ req[c].user = NoUser => req[c].status = 404
            /\ (req[c].user # NoUser /\ ~Compare(req[c].password, req[c].user.password))
                  => req[c].status = 400
            /\ (req[c].user # NoUser /\ Compare(req[c].password, req[c].user.password))
                  => /\ req[c].status = 200
                     /\ req[c].token.kind = "jwt"
                     /\ req[c].token.uid = req[c].user.id
            /\ req[c].token # NoToken => req[c].status = 200

RegisterArrives(c) == req[c].pc = "idle" /\ req'[c].kind = "register"

\* C6: a registration with name, email or password missing is answered 400
\* at once: nothing is hashed, nothing is inserted, no token is issued and
\* the store is as it was.
C6_MissingFieldNoEffect ==
    [][\A c \in Clients :
          (RegisterArrives(c)
             /\ (Falsy(req'[c].name) \/ Falsy(req'[c].email) \/ Falsy(req'[c].password)))
              => /\ req'[c].pc = "done"
                 /\ req'[c].status = 400
                 /\ req'[c].hashPassword = NoHash
                 /\ req'[c].user = NoUser
                 /\ req'[c].token = NoToken
                 /\ users' = users /\ nextId' = nextId
                 /\ issued' = issued /\ registered' = registered]_vars

\* a registration without a name, answered while the store holds a user
C6_Witness ==
    \E c \in Clients :
        /\ req[c].kind = "register" /\ req[c].pc = "done"
        /\ Falsy(req[c].name) /\ ~Falsy(req[c].email) /\ ~Falsy(req[c].password)
        /\ req[c].status = 400
        /\ users # << >>

\* C8: a token issued by register or login has no exp claim; at every later
\* time the gate authorizes "Bearer " + token with the token's userId, and
\* no request carrying it is answered by the gate.
C8_IssuedTokenStaysValid ==
    \A t \in issued :
        /\ t.exp = NoExp
        /\ AuthMiddleware(<< BEARER, SP, t >>, secret, now).next
        /\ AuthMiddleware(<< BEARER, SP, t >>, secret, now).userId = t.uid
        /\ \A c \in Clients :
              (Protected(req[c]) /\ req[c].header = << BEARER, SP, t >>)
                  => (PassedGate(req[c]) /\ req[c].userId = t.uid)

\* an issued token accepted by the gate after the clock has advanced
C8_Witness ==
    \E c \in Clients :
        /\ PassedGate(req[c]) /\ AuthorizedToken(req[c]) \in issued
        /\ req[c].kind = "favList" /\ req[c].status = 200
        /\ now = MaxTime
====
